---- MODULE Spec2Model ----
(***************************************************************************)
(* Control-flow flattening pass (Flatten::runOnFunction, flatten.cpp).     *)
(*                                                                         *)
(* The state is one function in IR form (block layout, terminators,        *)
(* landing pads, phis, cross-block uses, and the dispatch machinery the    *)
(* pass adds), the locals of runOnFunction, and an execution of the        *)
(* flattened function run in lockstep with the original one.               *)
(***************************************************************************)
EXTENDS Integers, Sequences, FiniteSets, TLC

VARIABLES
  F,            \* the function being transformed (record, see MkFunction)
  orig,         \* the function as it was handed to the first run
  before,       \* the function as it was when the current run started
  requested,    \* flattenFunc is empty or names this function
  run,          \* 1 = first run of the pass, 2 = re-run on its own output
  pc,           \* position inside runOnFunction
  result,       \* return value of runOnFunction
  reason,       \* which return / abort was taken
  blocks,       \* std::vector<BasicBlock *> blocks
  i,            \* loop index of the rewriting loop (0-based, as in the code)
  initialBlock, \* BasicBlock *initialBlock
  jumpBlock,    \* BasicBlock *jumpBlock
  es,           \* execution: "idle", "run", "exit", "wild"
  fCur,         \* block the flattened function executes next
  oCur,         \* block the original function is in
  jumpIdx,      \* value carried into the jumpIndex phi on the taken edge
  ver,          \* per original block: how often its instructions have run
  slot,         \* per value: content of its reg2mem stack slot (0 = never stored)
  reg,          \* per value: result of the most recent reload in jumpBlock
  steps,        \* number of blocks the flattened function has executed
  lastJump,     \* the most recent indirect jump: [taken, index, target]
  misread       \* the block executed last read a cross-block value wrongly

vars == <<F, orig, before, requested, run, pc, result, reason, blocks, i,
          initialBlock, jumpBlock, es, fCur, oCur, jumpIdx, ver, slot, reg,
          steps, lastJump, misread>>

passVars == <<F, before, run, pc, result, reason, blocks, i, initialBlock, jumpBlock>>
execVars == <<es, fCur, oCur, jumpIdx, ver, slot, reg, steps, lastJump, misread>>

----------------------------------------------------------------------------
(* Bounds of the explored inputs *)

\* number of blocks of the input function besides the entry block
MaxBlocks == 3
\* number of blocks one execution of the flattened function may run
MaxSteps == 6

----------------------------------------------------------------------------
(* IR helpers *)

Range(s) == {s[k] : k \in 1..Len(s)}

\* F.getEntryBlock(): the first block of the layout
entryBlock(f) == f.list[1]

\* F.isDeclaration(): a function without a body
isDeclaration(f) == Len(f.list) = 0

\* TerminatorInst::getNumSuccessors()
getNumSuccessors(t) == Len(t.succ)

Term(k, s) == [kind |-> k, succ |-> s]

\* pred_begin / pred_end of a block
Preds(f, b) == {p \in Range(f.list) : b \in Range(f.term[p].succ)}

\* number of incoming entries of a phi that name block b
CountIncoming(phi, b) == Cardinality({k \in 1..Len(phi) : phi[k].block = b})

\* PHINode::getBasicBlockIndex(b) == -1
NoIncoming(phi, b) == CountIncoming(phi, b) = 0

\* a fresh block; ids are dense, so the next id is the block count
NewBlockId(f) == Len(f.list)

InsertAfterEntry(list, b) == <<list[1], b>> \o Tail(list)

----------------------------------------------------------------------------
(* Input functions *)

\* blocks reachable from `seen` without entering a block of `avoid`
RECURSIVE ReachFrom(_, _, _)
ReachFrom(tm, seen, avoid) ==
  LET nxt == seen \cup {s \in UNION {Range(tm[b].succ) : b \in seen} : s \notin avoid}
  IN IF nxt = seen THEN seen ELSE ReachFrom(tm, nxt, avoid)

\* d strictly dominates u in the control-flow graph tm (entry is block 0)
StrictlyDominates(tm, d, u) ==
  /\ d # u
  /\ \/ d = 0
     \/ u \notin ReachFrom(tm, {0}, {d})

\* A function of n blocks besides the entry, with terminators tm and landing
\* pads lp, before any run of the pass.  Every block with two or more
\* predecessors carries a phi, and every block uses the values of all blocks
\* that strictly dominate it (the uses SSA form allows).
MkFunction(n, tm, lp) ==
  [ list        |-> [k \in 1..(n + 1) |-> k - 1],
    term        |-> tm,
    lpad        |-> lp,
    phi         |-> {b \in 1..n : Cardinality({p \in 0..n : b \in Range(tm[p].succ)}) >= 2},
    demoted     |-> {},
    uses        |-> [u \in 0..n |-> {d \in 0..n : StrictlyDominates(tm, d, u)}],
    reloads     |-> [u \in 0..n |-> {}],
    stores      |-> {},
    loads       |-> {},
    phis        |-> <<>>,
    jumpIndex   |-> <<>>,
    tableSize   |-> 0,
    tableStores |-> <<>>,
    address     |-> "none" ]

\* a declaration: no blocks
Declaration ==
  [ list |-> <<>>, term |-> <<>>, lpad |-> {}, phi |-> {}, demoted |-> {},
    uses |-> <<>>, reloads |-> <<>>, stores |-> {}, loads |-> {}, phis |-> <<>>,
    jumpIndex |-> <<>>, tableSize |-> 0, tableStores |-> <<>>, address |-> "none" ]

\* terminators with at most one successor that the pass supports
SimpleTerms(T) == {Term("ret", <<>>)} \cup {Term("br", <<t>>) : t \in T}

\* terminators the pass does not support
UnsupportedTerms(T) ==
  {Term("switch", <<t>>) : t \in T}
    \cup {Term("switch", <<p[1], p[2]>>) : p \in {q \in T \X T : q[1] # q[2]}}
    \cup {Term("indirectbr", <<>>)}
    \cup {Term("indirectbr", <<t>>) : t \in T}

\* What the IR verifier demands of the terminators tm of a function with
\* blocks 0..n and landing pads lp: no edge enters the entry block, a landing
\* pad is entered only over the unwind edge of an invoke, and an invoke
\* unwinds to a landing pad.
WellFormed(n, tm, lp) ==
  \A b \in 0..n :
    LET t == tm[b] IN
      /\ \A k \in 1..Len(t.succ) :
           /\ t.succ[k] \in 1..n
           /\ (t.succ[k] \in lp) <=> (t.kind = "invoke" /\ k = 2)
      /\ t.kind = "invoke" => Len(t.succ) = 2

\* The layout the explored inputs are restricted to: every block has a
\* predecessor earlier in the layout, so every block is reachable; when the
\* entry block has no successor, the code after it starts at block 1.
DiscoveryOrder(n, tm) ==
  \A b \in 1..n :
    \/ b = 1 /\ Len(tm[0].succ) = 0
    \/ \E p \in 0..(b - 1) : b \in Range(tm[p].succ)

----------------------------------------------------------------------------
(* Initial states: the function handed to the pass *)

IdleExec ==
  /\ es = "idle"
  /\ fCur = 0
  /\ oCur = 0
  /\ jumpIdx = 0
  /\ ver = <<>>
  /\ slot = <<>>
  /\ reg = <<>>
  /\ steps = 0
  /\ lastJump = [taken |-> FALSE, index |-> 0, target |-> 0]
  /\ misread = FALSE

StartOfRun(f) ==
  /\ F = f
  /\ orig = f
  /\ before = f
  /\ run = 1
  /\ pc = "start"
  /\ result = FALSE
  /\ reason = "none"
  /\ blocks = <<>>
  /\ i = 0
  /\ initialBlock = 0
  /\ jumpBlock = 0
  /\ IdleExec

\* A function with a body: n blocks besides the entry; at most one two-way
\* terminator (block bb, n + 1 for none), at most one unsupported terminator
\* (block ub, n + 1 for none), the other blocks return or branch; the last
\* block is a landing pad exactly when there is an invoke.
InitDefinition ==
  \E n \in 1..MaxBlocks :
    \E bb \in 0..(n + 1), ub \in 0..(n + 1) :
      /\ bb = n + 1 \/ bb # ub
      /\ \E inv \in IF bb < n /\ n >= 2 THEN BOOLEAN ELSE {FALSE} :
           LET lp == IF inv THEN {n} ELSE {}
               T  == (1..n) \ lp
           IN \E bt \in IF bb = n + 1 THEN {Term("ret", <<>>)}
                        ELSE IF inv THEN {Term("invoke", <<t, n>>) : t \in T}
                        ELSE {Term("condbr", <<t, f>>) : t \in T, f \in T} :
                \E ut \in IF ub = n + 1 THEN {Term("ret", <<>>)} ELSE UnsupportedTerms(T) :
                  \E st \in [(0..n) \ {bb, ub} -> SimpleTerms(T)] :
                    LET tm == [b \in 0..n |-> IF b = bb THEN bt
                                               ELSE IF b = ub THEN ut ELSE st[b]]
                    IN /\ WellFormed(n, tm, lp)
                       /\ DiscoveryOrder(n, tm)
                       /\ StartOfRun(MkFunction(n, tm, lp))

Init ==
  /\ requested \in BOOLEAN
  /\ \/ StartOfRun(Declaration)
     \/ InitDefinition

----------------------------------------------------------------------------
(* Eligibility and block collection *)

\* BasicBlock::isLandingPad()
isLandingPad(f, block) == block \in f.lpad

\* variant of IsIndirectBr: the test repeats the switch test
IsIndirectBrAsSwitch(t) == t.kind = "switch"

\* isa<IndirectBrInst>(block.getTerminator())
IsIndirectBr(t) == t.kind = "indirectbr"

\* isa<SwitchInst>(block.getTerminator())
IsSwitch(t) == t.kind = "switch"

\* The loop over the blocks of F from layout position k on, with the blocks
\* pushed so far in acc: landing pads and the entry block are skipped before
\* the terminator is looked at; an indirectbr or switch ends the run.
RECURSIVE CollectBlocks(_, _, _)
CollectBlocks(f, k, acc) ==
  IF k > Len(f.list) THEN [abort |-> "none", blocks |-> acc]
  ELSE LET block == f.list[k] IN
    IF isLandingPad(f, block) THEN CollectBlocks(f, k + 1, acc)
    ELSE IF block = entryBlock(f) THEN CollectBlocks(f, k + 1, acc)
    ELSE IF IsIndirectBr(f.term[block]) THEN [abort |-> "indirectbr", blocks |-> acc]
    ELSE IF IsSwitch(f.term[block]) THEN [abort |-> "switch", blocks |-> acc]
    ELSE CollectBlocks(f, k + 1, Append(acc, block))

\* blocks.size() < 2
NothingLeft(blks) == Len(blks) < 2

\* variant of IsTrivial: the test for an entry without successors is missing
IsTrivialWithoutZero(f, blks) ==
  getNumSuccessors(f.term[entryBlock(f)]) = Len(blks)

\* the entry terminator has as many successors as there are collected
\* blocks, or none
IsTrivial(f, blks) ==
  \/ getNumSuccessors(f.term[entryBlock(f)]) = Len(blks)
  \/ getNumSuccessors(f.term[entryBlock(f)]) = 0

Return(why) ==
  /\ pc' = "returned"
  /\ result' = FALSE
  /\ reason' = why

\* runOnFunction up to the last early return
Collect ==
  /\ pc = "start"
  /\ IF isDeclaration(F) THEN Return("declaration") /\ blocks' = <<>>
     ELSE IF ~requested THEN Return("not requested") /\ blocks' = <<>>
     ELSE LET c == CollectBlocks(F, 1, <<>>) IN
       /\ blocks' = c.blocks
       /\ IF c.abort # "none" THEN Return(c.abort)
          ELSE IF NothingLeft(c.blocks) THEN Return("nothing left")
          ELSE IF IsTrivial(F, c.blocks) THEN Return("trivial")
          ELSE pc' = "demote" /\ UNCHANGED <<result, reason>>
  /\ UNCHANGED <<F, orig, before, requested, run, i, initialBlock, jumpBlock>>
  /\ UNCHANGED execVars

----------------------------------------------------------------------------
(* Demotion of the phis of the collected blocks *)

\* DemotePHIToStack on the phi of block b: the phi becomes a load from a
\* stack slot that every predecessor stores to
DemotePHIToStack(f, b) ==
  IF b \in f.phi
    THEN [f EXCEPT !.phi = @ \ {b}, !.demoted = @ \cup {b}]
    ELSE f

RECURSIVE DemoteAll(_, _, _)
DemoteAll(f, blks, k) ==
  IF k > Len(blks) THEN f ELSE DemoteAll(DemotePHIToStack(f, blks[k]), blks, k + 1)

DemotePHIs ==
  /\ pc = "demote"
  /\ F' = DemoteAll(F, blocks, 1)
  /\ pc' = "split"
  /\ UNCHANGED <<orig, before, requested, run, result, reason, blocks, i,
                 initialBlock, jumpBlock>>
  /\ UNCHANGED execVars

----------------------------------------------------------------------------
(* The entry block and the dispatch block *)

\* a block added to the function: its terminator, no uses yet
WithBlock(f, b, t, atEnd) ==
  [f EXCEPT !.list = IF atEnd THEN Append(@, b) ELSE InsertAfterEntry(@, b),
            !.term = (b :> t) @@ @,
            !.uses = (b :> {}) @@ @,
            !.reloads = (b :> {}) @@ @]

\* entryBlock.splitBasicBlock(entryBlock.getTerminator()): the new block takes
\* the terminator, the entry block branches to it
splitBasicBlock(f, new) ==
  LET entry == entryBlock(f)
      g == WithBlock(f, new, f.term[entry], FALSE)
  IN [g EXCEPT !.term[entry] = Term("br", <<new>>)]

\* Instruction::eraseFromParent() on the terminator of block b
EraseTerminator(f, b) == [f EXCEPT !.term[b] = Term("none", <<>>)]

\* initialBlock is the split-off block when the entry has several successors,
\* else the entry's only successor; the entry terminator is erased
SplitEntry ==
  /\ pc = "split"
  /\ LET entry == entryBlock(F) IN
       IF getNumSuccessors(F.term[entry]) > 1
         THEN /\ initialBlock' = NewBlockId(F)
              /\ blocks' = Append(blocks, NewBlockId(F))
              /\ F' = EraseTerminator(splitBasicBlock(F, NewBlockId(F)), entry)
         ELSE /\ initialBlock' = F.term[entry].succ[1]
              /\ blocks' = blocks
              /\ F' = EraseTerminator(F, entry)
  /\ pc' = "dispatch"
  /\ UNCHANGED <<orig, before, requested, run, result, reason, i, jumpBlock>>
  /\ UNCHANGED execVars

\* the operand handed to CreateIndirectBr: jumpAddress, the result of the GEP
\* into jumpTable at jumpIndex, which is the address of the slot
JumpAddress == "gep"

\* jumpBlock with the jumpIndex phi, the jump table alloca of blocks.size()
\* slots in the entry block, and the indirect branch
CreateDispatch ==
  /\ pc = "dispatch"
  /\ jumpBlock' = NewBlockId(F)
  /\ F' = [WithBlock(F, NewBlockId(F), Term("indirectbr", <<>>), TRUE)
             EXCEPT !.jumpIndex = <<>>,
                    !.phis = <<>>,
                    !.tableSize = Len(blocks),
                    !.tableStores = <<>>,
                    !.address = JumpAddress]
  /\ i' = 0
  /\ pc' = "loop"
  /\ UNCHANGED <<orig, before, requested, run, result, reason, blocks, initialBlock>>
  /\ UNCHANGED execVars

----------------------------------------------------------------------------
(* Terminator rewriting, one block of the vector per step *)

\* std::find(blocks.begin(), blocks.end(), block) != blocks.end()
InVector(blks, block) == \E k \in 1..Len(blks) : blks[k] = block

\* variant of findBlock: the position counted from 1
findBlockFromOne(blks, block) ==
  IF InVector(blks, block)
    THEN CHOOSE k \in 1..Len(blks) :
           blks[k] = block /\ \A j \in 1..(k - 1) : blks[j] # block
    ELSE Len(blks) + 1

\* findBlock: the position of block in the vector, counted from 0
\* (blocks.size() when std::find returns end())
findBlock(blks, block) ==
  IF InVector(blks, block)
    THEN (CHOOSE k \in 1..Len(blks) :
            blks[k] = block /\ \A j \in 1..(k - 1) : blks[j] # block) - 1
    ELSE Len(blks)

\* an incoming entry of the jumpIndex phi: a constant index (t = f), or the
\* select between the true and the false index
Incoming(b, o, t, f) == [block |-> b, op |-> o, t |-> t, f |-> f]

\* jumpIndex->addIncoming(value, block)
addIncoming(f, entry) == [f EXCEPT !.jumpIndex = Append(@, entry)]

\* if (block == initialBlock) jumpIndex->addIncoming(index, &entryBlock)
AddInitialIncoming(f, block, ib, index) ==
  IF block = ib
    THEN addIncoming(f, Incoming(entryBlock(f), "const", index, index))
    ELSE f

\* the block a new unconditional branch to jumpBlock is put into
BranchToJump(f, block, jb) == [f EXCEPT !.term[block] = Term("br", <<jb>>)]

\* 1 successor: its index flows into jumpIndex from this block
RewriteOneSuccessor(f, blks, block, jb) ==
  LET destination == f.term[block].succ[1]
      index == findBlock(blks, destination)
  IN BranchToJump(addIncoming(f, Incoming(block, "const", index, index)), block, jb)

\* conditional branch: a select of the two indices flows into jumpIndex
RewriteConditional(f, blks, block, jb) ==
  LET trueIndex == findBlock(blks, f.term[block].succ[1])
      falseIndex == findBlock(blks, f.term[block].succ[2])
  IN BranchToJump(addIncoming(f, Incoming(block, "select", trueIndex, falseIndex)), block, jb)

\* variant of RewriteInvoke: the incoming entry names the invoke's block
RewriteInvokeFromBlock(f, blks, block, jb) ==
  LET destination == findBlock(blks, f.term[block].succ[1])
      newDestination == NewBlockId(f)
      g == WithBlock(f, newDestination, Term("br", <<jb>>), TRUE)
  IN addIncoming([g EXCEPT !.term[block].succ[1] = newDestination],
                 Incoming(block, "const", destination, destination))

\* invoke: a new block on the normal edge carries the index of the normal
\* destination into jumpIndex; the unwind edge stays
RewriteInvoke(f, blks, block, jb) ==
  LET destination == findBlock(blks, f.term[block].succ[1])
      newDestination == NewBlockId(f)
      g == WithBlock(f, newDestination, Term("br", <<jb>>), TRUE)
  IN addIncoming([g EXCEPT !.term[block].succ[1] = newDestination],
                 Incoming(newDestination, "const", destination, destination))

\* the successors findBlock is called on for the block
LookedUp(t) ==
  IF getNumSuccessors(t) = 1 THEN {t.succ[1]}
  ELSE IF t.kind = "condbr" THEN {t.succ[1], t.succ[2]}
  ELSE IF t.kind = "invoke" THEN {t.succ[1]}
  ELSE {}

\* "" when the terminator is rewritten, else the failure that stops the run
Failure(blks, t) ==
  IF getNumSuccessors(t) > 1 /\ t.kind \notin {"condbr", "invoke"}
    THEN "Unexpected TerminatorInst encountered!"
  ELSE IF \E b \in LookedUp(t) : ~InVector(blks, b)
    THEN "Block does not exist in vector!"
  ELSE ""

RewriteTerminator(f, blks, block, jb) ==
  LET t == f.term[block] IN
    IF getNumSuccessors(t) = 0 THEN f
    ELSE IF getNumSuccessors(t) = 1 THEN RewriteOneSuccessor(f, blks, block, jb)
    ELSE IF t.kind = "condbr" THEN RewriteConditional(f, blks, block, jb)
    ELSE RewriteInvoke(f, blks, block, jb)

\* entryBuilder.CreateStore(BlockAddress::get(block), GEP(jumpTable, index))
StoreBlockAddress(f, index, block) ==
  [f EXCEPT !.tableStores = Append(@, [slot |-> index, addr |-> block])]

\* variant of addDestination: the dispatch block is registered
addDestinationOfJump(f, jb, block) == [f EXCEPT !.term[jb].succ = Append(@, jb)]

\* indirectBranch->addDestination(block)
addDestination(f, jb, block) == [f EXCEPT !.term[jb].succ = Append(@, block)]

\* the blocks other than block and jumpBlock that use the value of block
Users(f, block, jb) ==
  {u \in Range(f.list) : u # block /\ u # jb /\ block \in f.uses[u]}

\* a phi of jumpBlock other than jumpIndex that already uses the value
UsedByPhi(f, block) == \E k \in 1..Len(f.phis) : f.phis[k].def = block

\* DemotePHIToStack on a phi of jumpBlock: a store of each incoming value at
\* the end of its incoming block, a reload in jumpBlock that takes over the
\* uses of the phi, and the phi is erased
DemoteJumpPhi(f, def, users) ==
  [f EXCEPT !.stores = @ \cup {def},
            !.loads = @ \cup {def},
            !.reloads = [u \in DOMAIN @ |-> IF u \in users THEN @[u] \cup {def} ELSE @[u]],
            !.phis = SelectSeq(@, LAMBDA p : p.def # def)]

\* "Handling successor use": the value of the block, when used in another
\* block, gets a phi in jumpBlock with this block as incoming block; the
\* users are redirected to the phi and the phi is demoted at once
HandleSuccessorUse(f, block, jb) ==
  LET users == Users(f, block, jb)
      isUsed == users # {} \/ UsedByPhi(f, block)
      withPhi == IF UsedByPhi(f, block) THEN f
                 ELSE [f EXCEPT !.phis = Append(@, [def |-> block, incoming |-> <<>>])]
      redirected ==
        [withPhi EXCEPT
           !.phis = [k \in DOMAIN @ |->
                       IF @[k].def = block
                         THEN [@[k] EXCEPT !.incoming = Append(@, block)] ELSE @[k]],
           !.uses = [u \in DOMAIN @ |-> IF u \in users THEN @[u] \ {block} ELSE @[u]]]
  IN IF isUsed THEN DemoteJumpPhi(redirected, block, users) ELSE f

\* one iteration of the loop over blocks, for index i
RewriteBlock ==
  /\ pc = "loop"
  /\ i < Len(blocks)
  /\ LET block == blocks[i + 1]
         f1 == AddInitialIncoming(F, block, initialBlock, i)
         t == f1.term[block]
         hasSuccessor == getNumSuccessors(t) > 0
         failure == Failure(blocks, t)
         f2 == RewriteTerminator(f1, blocks, block, jumpBlock)
         f3 == addDestination(StoreBlockAddress(f2, i, block), jumpBlock, block)
         f4 == IF hasSuccessor THEN HandleSuccessorUse(f3, block, jumpBlock) ELSE f3
     IN IF failure # ""
          THEN /\ pc' = "crashed"
               /\ reason' = failure
               /\ F' = f1
               /\ i' = i
          ELSE /\ pc' = "loop"
               /\ reason' = reason
               /\ F' = f4
               /\ i' = i + 1
  /\ UNCHANGED <<orig, before, requested, run, result, blocks, initialBlock, jumpBlock>>
  /\ UNCHANGED execVars

----------------------------------------------------------------------------
(* Post-pass completion *)

\* every phi of jumpBlock other than jumpIndex gets itself as incoming value
\* for each predecessor of jumpBlock it has no entry for
RECURSIVE CompleteIncoming(_, _)
CompleteIncoming(incoming, preds) ==
  IF preds = {} THEN incoming
  ELSE LET p == CHOOSE x \in preds : \A y \in preds : x <= y
       IN CompleteIncoming(IF \E k \in 1..Len(incoming) : incoming[k] = p
                             THEN incoming ELSE Append(incoming, p),
                           preds \ {p})

CompletePhis(f, jb) ==
  [f EXCEPT !.phis = [k \in DOMAIN @ |->
                        [@[k] EXCEPT !.incoming = CompleteIncoming(@, Preds(f, jb))]]]

\* entryBuilder.CreateBr(jumpBlock), the completion of the phis, return true
Finish ==
  /\ pc = "loop"
  /\ i = Len(blocks)
  /\ F' = CompletePhis(BranchToJump(F, entryBlock(F), jumpBlock), jumpBlock)
  /\ pc' = "returned"
  /\ result' = TRUE
  /\ reason' = "flattened"
  /\ UNCHANGED <<orig, before, requested, run, blocks, i, initialBlock, jumpBlock>>
  /\ UNCHANGED execVars

\* the pass run again on the function it has flattened
Rerun ==
  /\ pc = "returned"
  /\ result = TRUE
  /\ run = 1
  /\ es = "idle"
  /\ run' = 2
  /\ pc' = "start"
  /\ before' = F
  /\ result' = FALSE
  /\ reason' = "none"
  /\ blocks' = <<>>
  /\ UNCHANGED <<F, orig, requested, i, initialBlock, jumpBlock>>
  /\ UNCHANGED execVars

----------------------------------------------------------------------------
(* Execution of the flattened function, in lockstep with the original *)

OrigBlocks == DOMAIN orig.term

\* the entry block was split: initialBlock is not a block of the original
EntrySplit == initialBlock \notin OrigBlocks

\* the original block whose instructions or terminator block b holds
\* (-1: a block the pass added that holds neither)
BlockOf(b) ==
  IF b \in OrigBlocks THEN b
  ELSE IF b = initialBlock THEN entryBlock(orig)
  ELSE -1

\* block b ends in the terminator of original block BlockOf(b), as it was or
\* rewritten: every original block but a split entry, and the split-off block
CarriesTerminator(b) ==
  IF b = entryBlock(orig) THEN ~EntrySplit ELSE BlockOf(b) # -1

\* the value the jumpIndex phi takes on the edge from block b, when the
\* terminator b had in the original took its k-th successor (-1: no entry)
IncomingValue(phi, b, k) ==
  IF NoIncoming(phi, b) THEN -1
  ELSE LET e == phi[CHOOSE j \in 1..Len(phi) :
                      phi[j].block = b /\ \A h \in 1..(j - 1) : phi[h].block # b]
       IN IF e.op = "select" /\ k # 1 THEN e.f ELSE e.t

\* the block address stored last in jump-table slot idx (-1: never written)
SlotContent(f, idx) ==
  LET ks == {k \in 1..Len(f.tableStores) : f.tableStores[k].slot = idx}
  IN IF ks = {} THEN -1
     ELSE f.tableStores[CHOOSE k \in ks : \A h \in ks : h <= k].addr

\* Where an indirectbr on the given operand can go (-1: anywhere else).  On
\* the loaded slot content it goes to that block, if it is a registered
\* destination.  On the address of the slot the behaviour is undefined.
JumpTargets(f, jb, idx) ==
  LET content == SlotContent(f, idx)
      legal == IF content \in Range(f.term[jb].succ) THEN content ELSE -1
  IN IF f.address = "load" THEN {legal} ELSE {legal, -1}

StartExec ==
  /\ pc = "returned"
  /\ result = TRUE
  /\ run = 1
  /\ es = "idle"
  /\ es' = "run"
  /\ fCur' = entryBlock(F)
  /\ oCur' = entryBlock(orig)
  /\ ver' = [b \in OrigBlocks |-> 0]
  /\ slot' = [b \in OrigBlocks |-> 0]
  /\ reg' = [b \in OrigBlocks |-> 0]
  /\ UNCHANGED <<jumpIdx, steps, lastJump, misread>>
  /\ UNCHANGED <<orig, requested>>
  /\ UNCHANGED passVars

\* jumpBlock runs: the reloads, then the indirect branch
Dispatch ==
  /\ es = "run"
  /\ steps < MaxSteps
  /\ fCur = jumpBlock
  /\ reg' = [d \in DOMAIN reg |-> IF d \in F.loads THEN slot[d] ELSE reg[d]]
  /\ \E target \in JumpTargets(F, jumpBlock, jumpIdx) :
       /\ lastJump' = [taken |-> TRUE, index |-> jumpIdx, target |-> target]
       /\ IF target = -1
            THEN es' = "wild" /\ fCur' = fCur
            ELSE es' = es /\ fCur' = target
  /\ steps' = steps + 1
  /\ misread' = FALSE
  /\ UNCHANGED <<oCur, jumpIdx, ver, slot>>
  /\ UNCHANGED <<orig, requested>>
  /\ UNCHANGED passVars

\* What the reads of block b can come to.  A direct use reads the register
\* of the definition, which holds its most recent result.  A redirected use
\* reads the reload made by the last visit of jumpBlock: a wrong value when
\* the definition has run since, any value when the slot was never stored to.
Misreads(b) ==
  LET rs == IF b \in DOMAIN F.reloads THEN {d \in F.reloads[b] : ver[d] > 0} ELSE {}
  IN IF \E d \in rs : reg[d] # 0 /\ reg[d] # ver[d] THEN {TRUE}
     ELSE IF \E d \in rs : reg[d] = 0 THEN {TRUE, FALSE}
     ELSE {FALSE}

\* a block other than jumpBlock runs: its instructions (for a block of the
\* original: its reads, its definition, the store to the slot of the value),
\* then its terminator
ExecBlock ==
  /\ es = "run"
  /\ steps < MaxSteps
  /\ fCur # jumpBlock
  /\ BlockOf(fCur) # -1 => BlockOf(fCur) = oCur
  /\ LET b == fCur
         t == F.term[b]
         body == b \in OrigBlocks
         newVer == IF body THEN [ver EXCEPT ![b] = @ + 1] ELSE ver
         o == orig.term[oCur]
         outcomes == IF CarriesTerminator(b) /\ getNumSuccessors(o) > 0
                       THEN 1..getNumSuccessors(o) ELSE {0}
     IN /\ ver' = newVer
        /\ misread' \in (IF body THEN Misreads(b) ELSE {FALSE})
        /\ slot' = IF body /\ b \in F.stores THEN [slot EXCEPT ![b] = newVer[b]] ELSE slot
        /\ \E k \in outcomes :
             /\ oCur' = IF k = 0 THEN oCur ELSE o.succ[k]
             /\ IF getNumSuccessors(t) = 0
                  THEN es' = "exit" /\ fCur' = fCur /\ jumpIdx' = jumpIdx
                ELSE IF t.succ = <<jumpBlock>>
                  THEN /\ es' = es
                       /\ fCur' = jumpBlock
                       /\ jumpIdx' = IncomingValue(F.jumpIndex, b, k)
                ELSE /\ es' = es
                     /\ fCur' = t.succ[IF k \in 1..Len(t.succ) THEN k ELSE 1]
                     /\ jumpIdx' = jumpIdx
  /\ steps' = steps + 1
  /\ UNCHANGED <<reg, lastJump>>
  /\ UNCHANGED <<orig, requested>>
  /\ UNCHANGED passVars

----------------------------------------------------------------------------

Next ==
  \/ Collect
  \/ DemotePHIs
  \/ SplitEntry
  \/ CreateDispatch
  \/ RewriteBlock
  \/ Finish
  \/ Rerun
  \/ StartExec
  \/ Dispatch
  \/ ExecBlock

Spec == Init /\ [][Next]_vars

----------------------------------------------------------------------------
(* Vocabulary of the properties *)

\* a run has returned true: the function is flattened
Flattened == pc = "returned" /\ result = TRUE

\* the current run has ended without touching the function
Unmodified == pc = "returned" /\ result = FALSE /\ F = before

\* the blocks of f that are neither the entry block nor a landing pad
EligibleOf(f) == {b \in Range(f.list) : b # entryBlock(f) /\ b \notin f.lpad}

\* the eligible blocks after the optional split of the entry block
Eligible == EligibleOf(orig) \cup (IF EntrySplit THEN {initialBlock} ELSE {})

\* the blocks inserted on the normal edge of an invoke
Intermediate == Range(F.list) \ (OrigBlocks \cup {initialBlock, jumpBlock})

\* f has a switch or an indirectbr terminator somewhere
HasUnsupported(f) ==
  \E b \in Range(f.list) : f.term[b].kind \in {"switch", "indirectbr"}

\* the terminator block b of the flattened function had in the original
OriginalTerminator(b) == orig.term[BlockOf(b)]

\* the destination list of the indirect branch
Destinations == F.term[jumpBlock].succ

----------------------------------------------------------------------------
(* Properties *)

\* C1: the flattened function runs the blocks of the original in the same
\* order (the dispatch block, the split-off initial block and the blocks on
\* invoke normal edges aside) and leaves through the same 0-successor
\* terminator: its control never strays, whenever it is in a block that
\* belongs to an original block the original function is in that block, and
\* when it has left, the original has left through that block too.
C1_SameBlockSequence ==
  /\ es # "wild"
  /\ es \in {"run", "exit"} /\ BlockOf(fCur) # -1 => BlockOf(fCur) = oCur
  /\ es = "exit" => /\ getNumSuccessors(orig.term[oCur]) = 0
                    /\ F.term[fCur] = orig.term[oCur]

\* C2: a function with a switch or indirectbr terminator in any block, the
\* entry block and landing pads included, is returned unmodified with result
\* false.
C2_UnsupportedUnmodified ==
  run = 1 /\ pc # "start" /\ HasUnsupported(orig) => Unmodified

\* C3: every use, in another block, of a value defined in an eligible block
\* reads the value the most recent execution of the definition produced,
\* also in landing pads entered over an unwind edge.
C3_CrossBlockReadsCorrect == ~misread

\* C4: after the post-pass, every phi of the dispatch block, jumpIndex
\* included, has exactly one incoming entry per predecessor of the dispatch
\* block and none for any other block; the predecessors are the entry block,
\* the eligible blocks that ended in a branch, and the blocks inserted on
\* invoke normal edges.
C4_IncomingPerPredecessor ==
  Flattened =>
    LET P == Preds(F, jumpBlock) IN
      /\ P = {entryBlock(F)}
               \cup {b \in Range(blocks) : OriginalTerminator(b).kind \in {"br", "condbr"}}
               \cup Intermediate
      /\ \A b \in Range(F.list) :
           CountIncoming(F.jumpIndex, b) = IF b \in P THEN 1 ELSE 0
      /\ \A k \in 1..Len(F.phis) : \A b \in Range(F.list) :
           Cardinality({j \in 1..Len(F.phis[k].incoming) : F.phis[k].incoming[j] = b})
             = IF b \in P THEN 1 ELSE 0

C4_Witness ==
  /\ Flattened
  /\ Intermediate # {}
  /\ \E b \in Range(blocks) : OriginalTerminator(b).kind = "br"

\* C5: once none of the early returns is taken the transform runs to its
\* end: no findBlock assertion fails and no terminator with several
\* successors is anything but a conditional branch or an invoke.
C5_NoContractViolation == pc # "crashed"

\* C6 as stated: the re-run on a flattened function returns false, leaves the
\* function alone, and does so through the already-flat check.
C6_RerunTrivial ==
  run = 2 /\ pc # "start" => Unmodified /\ reason = "trivial"

\* C6 amended: the re-run on a flattened function returns false and leaves
\* the function alone, and does so because the collection loop meets the
\* indirectbr terminator of the dispatch block.
C6_RerunIndirectBr ==
  run = 2 /\ pc # "start" => Unmodified /\ reason = "indirectbr"

C6_Witness == run = 2 /\ pc = "returned" /\ EntrySplit

\* C7: the destination list of the indirect branch holds each eligible block
\* (the split-off initial block included) exactly once, and nothing else: not
\* the entry block, a landing pad, the dispatch block or a block inserted on
\* an invoke normal edge; every entry is a block of the function.
C7_ClosedDestinationSet ==
  Flattened =>
    /\ Range(Destinations) = Eligible
    /\ Cardinality(Range(Destinations)) = Len(Destinations)
    /\ Range(Destinations) \cap
         ({entryBlock(F), jumpBlock} \cup F.lpad \cup Intermediate) = {}
    /\ Range(Destinations) \subseteq Range(F.list)

C7_Witness == Flattened /\ EntrySplit /\ Len(Destinations) = Len(orig.list)

\* C8: the eligible blocks map one-to-one onto the indices 0..N-1; the table
\* has N slots and slot i holds the address of the block of index i; every
\* value that flows into jumpIndex is in 0..N-1 and is the index of the slot
\* that holds the successor it stands for.
C8_IndexBijection ==
  Flattened =>
    LET N == Len(blocks)
        Stands(e) ==  \* the successors the entry's indices stand for
          IF e.block = entryBlock(F) THEN <<initialBlock, initialBlock>>
          ELSE IF e.block \in Intermediate
            THEN LET inv == CHOOSE b \in Range(blocks) : e.block \in Range(F.term[b].succ)
                 IN <<OriginalTerminator(inv).succ[1], OriginalTerminator(inv).succ[1]>>
          ELSE LET t == OriginalTerminator(e.block)
               IN <<t.succ[1], t.succ[Len(t.succ)]>>
    IN /\ Range(blocks) = Eligible
       /\ Cardinality(Eligible) = N
       /\ F.tableSize = N
       /\ Len(F.tableStores) = N
       /\ \A k \in 1..N : /\ SlotContent(F, k - 1) = blocks[k]
                          /\ findBlock(blocks, blocks[k]) = k - 1
       /\ \A j \in 1..Len(F.jumpIndex) :
            LET e == F.jumpIndex[j] IN
              /\ e.t \in 0..(N - 1)
              /\ e.f \in 0..(N - 1)
              /\ SlotContent(F, e.t) = Stands(e)[1]
              /\ SlotContent(F, e.f) = Stands(e)[2]

C8_Witness ==
  /\ Flattened
  /\ EntrySplit
  /\ \E j \in 1..Len(F.jumpIndex) : F.jumpIndex[j].t # F.jumpIndex[j].f

\* C9: a function with fewer than 2 eligible blocks, or whose entry
\* terminator has no successor or as many successors as there are eligible
\* blocks, is returned unmodified with result false: no phi demoted, the
\* entry block not split.
C9_TrivialUnmodified ==
  LET entrySuccessors == getNumSuccessors(before.term[entryBlock(before)])
      collected == Cardinality(EligibleOf(before))
  IN /\ pc # "start"
     /\ ~isDeclaration(before)
     /\ requested
     /\ collected < 2 \/ entrySuccessors = 0 \/ entrySuccessors = collected
     => /\ Unmodified
        /\ F.phi = before.phi
        /\ entryBlock(F) = entryBlock(before)

C9_Witness ==
  /\ pc = "returned"
  /\ reason = "trivial"
  /\ before.phi # {}
  /\ Len(blocks) >= 2

\* C10: every visit of the dispatch block jumps to the block whose address
\* is stored in jump-table slot jumpIndex, and all slots of the table have
\* been written by the entry block before the first visit.
C10_JumpThroughTable ==
  /\ lastJump.taken =>
       /\ lastJump.target # -1
       /\ lastJump.target = SlotContent(F, lastJump.index)
  /\ es # "idle" => \A k \in 0..(F.tableSize - 1) : SlotContent(F, k) # -1

====
